---- MODULE Spec2Model ----
(***************************************************************************)
(* A model of the zchinr converters: docx2tex.py (a .docx package to       *)
(* semantic .tex) and fn2txt.py (the footnotes of that .tex as plain       *)
(* text).                                                                  *)
(*                                                                         *)
(* Representation.  The XML parts of the package are held as trees: the    *)
(* regular expressions with which the code picks nodes out of the XML      *)
(* text become queries on the tree, and the tag names those expressions    *)
(* spell are kept as strings, so that a query looks for exactly the tag    *)
(* the code looks for.  Rendered text is a sequence of tokens: one token   *)
(* per character, except that a control word (\emph, \footnote, ...), an   *)
(* environment delimiter and a <zchinr:...> or <w:footnoteReference .../>  *)
(* tag is a single token.  The text alphabets below hold no backslash and  *)
(* no angle bracket, so no pattern of the code can match part of such a    *)
(* token.  The regular expressions of the normalisation passes are kept    *)
(* as data and run by a backtracking matcher with the priorities of        *)
(* Python's re module.                                                     *)
(***************************************************************************)
EXTENDS Integers, Sequences, FiniteSets, TLC

\* ------------------------------------------------------------- bounds
\* Longest body text of a plain-text document.
MaxTextLen == 3
\* Longest footnote text of a footnote document.
MaxFnLen == 2
\* Most rows, and most cells per row, of a table document.
MaxRows == 2
MaxCells == 2
\* Largest outline level of a heading document.
MaxLevel == 5
\* Most invocations of process_structure within one process.
MaxRuns == 2

\* ------------------------------------------------------------ helpers
Range(s) == {s[i] : i \in 1..Len(s)}

RECURSIVE Flatten(_)
Flatten(ss) == IF Len(ss) = 0 THEN <<>> ELSE Head(ss) \o Flatten(Tail(ss))

\* The sequences over alphabet A of length 1..n.
RECURSIVE SeqsUpTo(_, _)
SeqsUpTo(A, n) ==
  IF n = 0 THEN {}
  ELSE LET shorter == SeqsUpTo(A, n - 1)
       IN  {<<a>> : a \in A} \cup shorter
             \cup {Append(s, a) : s \in shorter, a \in A}

CountTok(s, t) == Cardinality({i \in 1..Len(s) : s[i] = t})

\* --------------------------------------------------- regular expressions
\* A character class: the tokens of set, or with neg every other token.
Cls(S)    == [neg |-> FALSE, set |-> S]
NotCls(S) == [neg |-> TRUE, set |-> S]
InClass(t, c) == IF c.neg THEN t \notin c.set ELSE t \in c.set

\* \s of a str pattern: ASCII whitespace and the Unicode spaces.
Space  == Cls({" ", "\n", "\t", "\f", "\r", "U+00A0"})
\* [ \t\f]
HSpace == Cls({" ", "\t", "\f"})
\* . (no DOTALL flag anywhere in the code: every character but the newline)
Dot    == NotCls({"\n"})
\* \d
Digit  == Cls({"0", "1", "2", "3", "4", "5", "6", "7", "8", "9"})

\* Pattern elements.  k: "one" (one character of class c), "greedy"
\* (c{min,}), "lazy" (c{min,}?), "open"/"close" (the parentheses of group
\* n), "group+"/"group*" ((sub)+ and (sub)*, greedy).
One(c)          == [k |-> "one", c |-> c, min |-> 1, n |-> 0, sub |-> <<>>]
Ch(t)           == One(Cls({t}))
Greedy(c, min)  == [k |-> "greedy", c |-> c, min |-> min, n |-> 0, sub |-> <<>>]
Lazy(c, min)    == [k |-> "lazy", c |-> c, min |-> min, n |-> 0, sub |-> <<>>]
Open(n)         == [k |-> "open", c |-> Dot, min |-> 0, n |-> n, sub |-> <<>>]
Close(n)        == [k |-> "close", c |-> Dot, min |-> 0, n |-> n, sub |-> <<>>]
GroupPlus(sub)  == [k |-> "group+", c |-> Dot, min |-> 1, n |-> 0, sub |-> sub]

\* The spans of groups 1..3 (no pattern modelled here has more): a group
\* that took no part in the match expands to the empty string.
NoCaps == [n \in 1..3 |-> [b |-> 1, e |-> 1]]
NoMatch == [ok |-> FALSE, end |-> 0, caps |-> NoCaps]

\* The number of consecutive tokens of class c in s from position i.
RECURSIVE RunLen(_, _, _)
RunLen(s, i, c) ==
  IF i <= Len(s) /\ InClass(s[i], c) THEN 1 + RunLen(s, i + 1, c) ELSE 0

\* Match(pat, s, i, caps): the first match, in the order Python's
\* backtracking tries them, of pattern pat against s starting at position
\* i: [ok, end (the position after the match), caps (the groups' spans)].
RECURSIVE Match(_, _, _, _), TryDown(_, _, _, _, _, _), TryUp(_, _, _, _, _, _)
Match(pat, s, i, caps) ==
  IF Len(pat) = 0 THEN [ok |-> TRUE, end |-> i, caps |-> caps]
  ELSE LET e == Head(pat)
           rest == Tail(pat)
       IN CASE e.k = "one" ->
                 IF i <= Len(s) /\ InClass(s[i], e.c)
                 THEN Match(rest, s, i + 1, caps) ELSE NoMatch
            [] e.k = "open" -> Match(rest, s, i, [caps EXCEPT ![e.n].b = i])
            [] e.k = "close" -> Match(rest, s, i, [caps EXCEPT ![e.n].e = i])
            [] e.k = "greedy" ->
                 TryDown(rest, s, i, RunLen(s, i, e.c), e.min, caps)
            [] e.k = "lazy" ->
                 TryUp(rest, s, i, e.min, RunLen(s, i, e.c), caps)
            [] e.k = "group+" ->
                 Match(e.sub \o <<[e EXCEPT !.k = "group*"]>> \o rest, s, i, caps)
            [] e.k = "group*" ->
                 LET more == Match(e.sub \o <<e>> \o rest, s, i, caps)
                 IN  IF more.ok /\ more.end > i THEN more
                     ELSE Match(rest, s, i, caps)

\* A greedy repetition: the longest run first, then shorter ones.
TryDown(rest, s, i, k, min, caps) ==
  IF k < min THEN NoMatch
  ELSE LET r == Match(rest, s, i + k, caps)
       IN  IF r.ok THEN r ELSE TryDown(rest, s, i, k - 1, min, caps)

\* A lazy repetition: the shortest run first, then longer ones.
TryUp(rest, s, i, k, max, caps) ==
  IF k > max THEN NoMatch
  ELSE LET r == Match(rest, s, i + k, caps)
       IN  IF r.ok THEN r ELSE TryUp(rest, s, i, k + 1, max, caps)

\* Replacement templates: literal tokens and group references \n.
T(t) == [k |-> "t", t |-> t, n |-> 0]
G(n) == [k |-> "g", t |-> "", n |-> n]
Lits(ts) == [j \in 1..Len(ts) |-> T(ts[j])]
Chars(ts) == [j \in 1..Len(ts) |-> Ch(ts[j])]

Group(s, caps, n) ==
  IF caps[n].e > caps[n].b THEN SubSeq(s, caps[n].b, caps[n].e - 1) ELSE <<>>

Expand(repl, s, caps) ==
  Flatten([j \in 1..Len(repl) |->
             IF repl[j].k = "t" THEN <<repl[j].t>> ELSE Group(s, caps, repl[j].n)])

\* re.sub(pat, repl, s): the leftmost non-overlapping matches, left to
\* right, each replaced; the replacement is not scanned again.  No pattern
\* of the code can match the empty string.
RECURSIVE SubFrom(_, _, _, _)
SubFrom(pat, repl, s, i) ==
  IF i > Len(s) THEN <<>>
  ELSE LET r == Match(pat, s, i, NoCaps)
       IN  IF r.ok /\ r.end > i
           THEN Expand(repl, s, r.caps) \o SubFrom(pat, repl, s, r.end)
           ELSE <<s[i]>> \o SubFrom(pat, repl, s, i + 1)

re_sub(pat, repl, s) == SubFrom(pat, repl, s, 1)

\* re.search(pat, s) is not None
RECURSIVE SearchFrom(_, _, _)
SearchFrom(pat, s, i) ==
  IF i > Len(s) + 1 THEN FALSE
  ELSE Match(pat, s, i, NoCaps).ok \/ SearchFrom(pat, s, i + 1)

re_search(pat, s) == SearchFrom(pat, s, 1)

\* re.findall(pat, s) of a pattern with one group: the group's texts.
RECURSIVE FindallFrom(_, _, _)
FindallFrom(pat, s, i) ==
  IF i > Len(s) THEN <<>>
  ELSE LET r == Match(pat, s, i, NoCaps)
       IN  IF r.ok /\ r.end > i
           THEN <<Group(s, r.caps, 1)>> \o FindallFrom(pat, s, r.end)
           ELSE FindallFrom(pat, s, i + 1)

re_findall(pat, s) == FindallFrom(pat, s, 1)

\* ------------------------------------------------------ the input package
\* An XML element <tag w:val="val"/> (a toggle such as <w:b/> has no value).
Elem(tag, val) == [tag |-> tag, val |-> val]
HasTag(props, tag) == \E e \in props : e.tag = tag
ValOf(props, tag) == (CHOOSE e \in props : e.tag = tag).val

\* The children of a <w:r>: <w:t>text</w:t> and <w:footnoteReference w:id=.../>.
Txt(text) == [k |-> "w:t", text |-> text, id |-> ""]
Ref(id)   == [k |-> "w:footnoteReference", text |-> <<>>, id |-> id]
\* <w:r>: the elements of its <w:rPr> (the style reference among them) and
\* its children.
Run(rPr, content) == [rPr |-> rPr, content |-> content]
\* <w:p>...</w:p>: the elements of its <w:pPr> and its runs; <w:p/>; and
\* <w:tbl>: rows (<w:tr>) of cells (<w:tc>) of paragraphs.
Para(pPr, runs) == [kind |-> "w:p", pPr |-> pPr, runs |-> runs, rows |-> <<>>]
EmptyPara       == [kind |-> "w:p/", pPr |-> {}, runs |-> <<>>, rows |-> <<>>]
Tbl(rows)       == [kind |-> "w:tbl", pPr |-> {}, runs |-> <<>>, rows |-> rows]
\* <w:style w:styleId="id"> and its property block.
Style(id, props) == [styleId |-> id, props |-> props]
\* <w:footnote w:id="id"> and its paragraphs.
Footnote(id, body) == [id |-> id, body |-> body]
\* A part of the package: get_xmlpart returns False when the archive has
\* no such part.
Part(nodes) == [present |-> TRUE, nodes |-> nodes]
NoPart      == [present |-> FALSE, nodes |-> <<>>]
Docx(styles, footnotes, body) ==
  [styles |-> styles, footnotes |-> footnotes, body |-> body]

\* ------------------------------------------------------------- dicts
\* A Python dict: a set of <<key, value>> pairs, one per key.
DictHas(d, key) == \E kv \in d : kv[1] = key
DictGet(d, key) == (CHOOSE kv \in d : kv[1] = key)[2]
DictSet(d, key, v) == {kv \in d : kv[1] # key} \cup {<<key, v>>}
ListHas(l, x) == \E j \in 1..Len(l) : l[j] = x

\* The module-level tables of docx2tex.py.
Globals(b, i, s, l) ==
  [bold_styles |-> b, italic_styles |-> i, section_styles |-> s, list_styles |-> l]
FreshGlobals == Globals(<<>>, <<>>, {}, {})

\* -------------------------------------------------------- docx2tex.py
\* A Python value handed to select_level: a str, or the re.Match object.
PyStr(v)   == [type |-> "str", val |-> v]
ReMatch(v) == [type |-> "re.Match", val |-> v]

select_level(level) ==
  IF level = PyStr("0") THEN <<"\\section", "{">>
  ELSE IF level = PyStr("1") THEN <<"\\subsection", "{">>
  ELSE IF level = PyStr("2") THEN <<"\\subsubsection", "{">>
  ELSE IF level = PyStr("3") THEN <<"\\paragraph", "{">>
  ELSE <<"\\subparagraph", "{">>

\* The loop of process_structure over the declared styles: the first
\* <w:style> with the identifier is the one whose properties are read.
FirstWithId(styles, id) ==
  styles[CHOOSE j \in 1..Len(styles) :
           /\ styles[j].styleId = id
           /\ \A h \in 1..(j - 1) : styles[h].styleId # id]

classify_style(g, styles, id) ==
  LET props == FirstWithId(styles, id).props
  IN  [bold_styles |->
         IF HasTag(props, "w:b") THEN Append(g.bold_styles, id) ELSE g.bold_styles,
       italic_styles |->
         IF HasTag(props, "w:1") THEN Append(g.italic_styles, id) ELSE g.italic_styles,
       section_styles |->
         IF HasTag(props, "w:outlineLvl")
         THEN DictSet(g.section_styles, id, ValOf(props, "w:outlineLvl"))
         ELSE g.section_styles,
       list_styles |->
         IF HasTag(props, "w:ilvl")
         THEN DictSet(g.list_styles, id, ValOf(props, "w:ilvl"))
         ELSE g.list_styles]

RECURSIVE collect_styles_from(_, _, _)
collect_styles_from(g, styles, j) ==
  IF j > Len(styles) THEN g
  ELSE collect_styles_from(classify_style(g, styles, styles[j].styleId), styles, j + 1)

collect_styles(g, styles_data) ==
  IF styles_data.present THEN collect_styles_from(g, styles_data.nodes, 1) ELSE g

\* The locals append_before_p, append_after_p and is_section of
\* process_p_nodes.
Wrap(before, after, sec) ==
  [append_before_p |-> before, append_after_p |-> after, is_section |-> sec]

\* append_before_p += macro; append_after_p += '}'
add_macro(w, macro) ==
  Wrap(w.append_before_p \o <<macro, "{">>, w.append_after_p \o <<"}">>, w.is_section)
\* if ... and is_section is False: the bold wrapper
add_bold(w, bold) == IF bold /\ ~w.is_section THEN add_macro(w, "\\textbf") ELSE w
\* if ...: the italic wrapper
add_emph(w, italic) == IF italic THEN add_macro(w, "\\emph") ELSE w
\* if ... and is_section is False: the list item placeholders
add_item(w, list) ==
  IF list /\ ~w.is_section
  THEN Wrap(<<"<zchinr:item>">> \o w.append_before_p,
            w.append_after_p \o <<"</zchinr:item>">>, w.is_section)
  ELSE w

\* process_p_nodes, "process node style" of a paragraph.
StyleIs(p, l) == HasTag(p.pPr, "w:pStyle") /\ ListHas(l, ValOf(p.pPr, "w:pStyle"))
StyleIn(p, d) == HasTag(p.pPr, "w:pStyle") /\ DictHas(d, ValOf(p.pPr, "w:pStyle"))
p_style_stage(p, g) ==
  add_item(
    add_emph(
      add_bold(
        IF StyleIn(p, g.section_styles)
        THEN Wrap(select_level(PyStr(DictGet(g.section_styles, ValOf(p.pPr, "w:pStyle")))),
                  <<"}">>, TRUE)
        ELSE Wrap(<<>>, <<>>, FALSE),
        StyleIs(p, g.bold_styles)),
      StyleIs(p, g.italic_styles)),
    StyleIn(p, g.list_styles))

\* A variant of "process node properties" that adds the heading wrapper
\* of a direct outline level to the wrappers already set.
p_properties_stage_additive(p, w0) ==
  add_item(
    add_emph(
      add_bold(
        IF HasTag(p.pPr, "w:outlineLvl")
        THEN Wrap(w0.append_before_p
                    \o select_level(ReMatch(ValOf(p.pPr, "w:outlineLvl"))),
                  w0.append_after_p \o <<"}">>, TRUE)
        ELSE w0,
        HasTag(p.pPr, "w:b")),
      HasTag(p.pPr, "w:i")),
    HasTag(p.pPr, "w:ilvl"))

\* process_p_nodes, "process node properties" of a paragraph: w0 is what the
\* style stage left.  select_level is handed the match object, not its
\* group 2, and its result replaces append_before_p.
p_properties_stage(p, w0) ==
  add_item(
    add_emph(
      add_bold(
        IF HasTag(p.pPr, "w:outlineLvl")
        THEN Wrap(select_level(ReMatch(ValOf(p.pPr, "w:outlineLvl"))), <<"}">>, TRUE)
        ELSE w0,
        HasTag(p.pPr, "w:b")),
      HasTag(p.pPr, "w:i")),
    HasTag(p.pPr, "w:ilvl"))

p_wrap(p, g) == p_properties_stage(p, p_style_stage(p, g))

\* The tag the texts pattern copies into the run when footnotes are not
\* ignored.
FootnoteReference(id) == "<w:footnoteReference w:id=\"" \o id \o "\"/>"

\* process_p_nodes, "process w:t nodes" of a run: with ignore_footnotes the
\* pattern finds the <w:t> nodes only.
run_text(r, ignore_footnotes) ==
  Flatten([j \in 1..Len(r.content) |->
             IF r.content[j].k = "w:t" THEN r.content[j].text
             ELSE IF ignore_footnotes THEN <<>>
             ELSE <<FootnoteReference(r.content[j].id)>>])

\* process_p_nodes, one run: the style named by a <w:r_style> element, then
\* the toggles of <w:rPr>.
process_run(r, is_section, ignore_footnotes, g) ==
  LET has == HasTag(r.rPr, "w:r_style")
      id  == ValOf(r.rPr, "w:r_style")
      b1  == has /\ ListHas(g.bold_styles, id) /\ ~is_section
      i1  == has /\ ListHas(g.italic_styles, id)
      b2  == HasTag(r.rPr, "w:b") /\ ~is_section
      i2  == HasTag(r.rPr, "w:i")
      bold == <<"\\textbf", "{">>
      emph == <<"\\emph", "{">>
      before == (IF b1 THEN bold ELSE <<>>) \o (IF i1 THEN emph ELSE <<>>)
                  \o (IF b2 THEN bold ELSE <<>>) \o (IF i2 THEN emph ELSE <<>>)
      after  == (IF b1 THEN <<"}">> ELSE <<>>) \o (IF i1 THEN <<"}">> ELSE <<>>)
                  \o (IF b2 THEN <<"}">> ELSE <<>>) \o (IF i2 THEN <<"}">> ELSE <<>>)
  IN  before \o run_text(r, ignore_footnotes) \o after

\* process_p_nodes, one paragraph with its final locals w.
render_p(p, w, ignore_footnotes, g) ==
  w.append_before_p
    \o Flatten([j \in 1..Len(p.runs) |->
                  process_run(p.runs[j], w.is_section, ignore_footnotes, g)])
    \o w.append_after_p \o <<"\n", "\n">>

process_p(p, ignore_footnotes, g) == render_p(p, p_wrap(p, g), ignore_footnotes, g)

\* The pattern of process_p_nodes finds the <w:p ...>...</w:p> nodes; a
\* <w:p/> is none.
process_p_nodes(data, ignore_footnotes, g) ==
  Flatten([j \in 1..Len(data) |->
             IF data[j].kind = "w:p" THEN process_p(data[j], ignore_footnotes, g)
             ELSE <<>>])

\* A variant of the row loop that puts a cell separator before every cell.
process_tr_sep_first(tr, g) ==
  Flatten([j \in 1..Len(tr) |->
             <<"<zchinr:cellsep/>">> \o process_p_nodes(tr[j], FALSE, g)])
    \o <<"<zchinr:rowsep/>">>

\* process_tbl_nodes, one row (a row holds at least one cell: cells[0] of a
\* row without cells raises IndexError).
process_tr(tr, g) ==
  process_p_nodes(tr[1], FALSE, g)
    \o Flatten([j \in 1..(Len(tr) - 1) |->
                  <<"<zchinr:cellsep/>">> \o process_p_nodes(tr[j + 1], FALSE, g)])
    \o <<"<zchinr:rowsep/>">>

process_tbl_nodes(tbl, g) ==
  <<"\n", "\n", "\\begin{documentation}", "\n">>
    \o Flatten([j \in 1..Len(tbl.rows) |-> process_tr(tbl.rows[j], g)])
    \o <<"\\end{documentation}", "\n", "\n">>

\* process_nodes, first statement: the <w:p/> nodes are removed from the whole
\* body, those inside table cells included.
RemoveEmpty(nodes) == SelectSeq(nodes, LAMBDA x : x.kind # "w:p/")
remove_empty_p(data) ==
  [j \in 1..Len(RemoveEmpty(data)) |->
     LET x == RemoveEmpty(data)[j]
     IN  IF x.kind = "w:tbl"
         THEN Tbl([r \in 1..Len(x.rows) |->
                     [c \in 1..Len(x.rows[r]) |-> RemoveEmpty(x.rows[r][c])]])
         ELSE x]

process_nodes(data, g) ==
  LET nodes == remove_empty_p(data)
  IN  Flatten([j \in 1..Len(nodes) |->
                 IF nodes[j].kind = "w:tbl" THEN process_tbl_nodes(nodes[j], g)
                 ELSE process_p_nodes(<<nodes[j]>>, FALSE, g)])

\* process_structure, "collect footnotes".
RECURSIVE collect_footnotes_from(_, _, _, _)
collect_footnotes_from(d, fns, j, g) ==
  IF j > Len(fns) THEN d
  ELSE LET id == fns[j].id
           node == fns[CHOOSE h \in 1..Len(fns) :
                         /\ fns[h].id = id
                         /\ \A m \in 1..(h - 1) : fns[m].id # id]
       IN  collect_footnotes_from(
             DictSet(d, id, <<"\\footnote", "{">>
                              \o process_p_nodes(node.body, TRUE, g) \o <<"}">>),
             fns, j + 1, g)

collect_footnotes(footnotes_data, g) ==
  IF footnotes_data.present THEN collect_footnotes_from({}, footnotes_data.nodes, 1, g)
  ELSE {}

\* The identifiers a footnote or a reference of the documents may carry.
FootnoteIds == {"1", "2"}
IsFootnoteReference(t) == \E id \in FootnoteIds : t = FootnoteReference(id)
RefId(t) == CHOOSE id \in FootnoteIds : t = FootnoteReference(id)

\* process_structure, "replace footnotes inline": re.sub drops a match
\* whose replacement function returns None, which dict.get does for an
\* identifier the index lacks.
replace_footnotes(result, footnote_nodes) ==
  IF footnote_nodes # {}
  THEN Flatten([j \in 1..Len(result) |->
                  IF IsFootnoteReference(result[j])
                  THEN IF DictHas(footnote_nodes, RefId(result[j]))
                       THEN DictGet(footnote_nodes, RefId(result[j]))
                       ELSE <<>>
                  ELSE <<result[j]>>])
  ELSE result

\* The top-level paragraphs of the body, in order, and the locals
\* process_p_nodes ends each with.
TopParagraphs(body) == SelectSeq(body, LAMBDA x : x.kind = "w:p")

\* process_structure from "collect footnotes" on, with the tables g the
\* style loop left and the index footnote_nodes_.
structure_result(file_name, g, footnote_nodes_, rendered_) ==
  [globals |-> g,
   footnote_nodes |-> footnote_nodes_,
   rendered |-> rendered_,
   p_locals |-> [j \in 1..Len(TopParagraphs(file_name.body)) |->
                   p_wrap(TopParagraphs(file_name.body)[j], g)],
   result |-> replace_footnotes(rendered_, footnote_nodes_)]

structure_body(file_name, g) ==
  structure_result(file_name, g, collect_footnotes(file_name.footnotes, g),
                   process_nodes(file_name.body, g))

process_structure(file_name, g0) ==
  structure_body(file_name, collect_styles(g0, file_name.styles))

\* ------------------------------------------- docx2tex.py, __main__
\* The passes "format urls", the two abbreviation patterns of "add thin
\* space to abbreviations" and "add non-breakable space" need a ".", a
\* ":" or a section sign in the text to match; the alphabets of the
\* documents below hold none, so these passes leave file_data as it is
\* and are not spelled out.
Macro == Cls({"\\emph", "\\textbf"})

\* escape ampersand, less than, greater than, number sign, dollar and percent
escape(s) ==
  LET s1 == re_sub(<<Ch("&amp;")>>, Lits(<<"&">>), s)
      s2 == re_sub(<<Ch("&lt;")>>, Lits(<<"<">>), s1)
      s3 == re_sub(<<Ch("&gt;")>>, Lits(<<">">>), s2)
      s4 == re_sub(<<Ch("$")>>, Lits(<<"\\", "$">>), s3)
      s5 == re_sub(<<Ch("#")>>, Lits(<<"\\", "#">>), s4)
      s6 == re_sub(<<Ch("&")>>, Lits(<<"\\", "&">>), s5)
      s7 == re_sub(<<Ch("%")>>, Lits(<<"\\", "%">>), s6)
  IN  s7

\* \\emph\{.*?\}[ \t\f]*\\emph\{.*?\} and its replacement \\emph{\1\2\3}
AdjacentPat(m) ==
  <<Ch(m), Ch("{"), Open(1), Lazy(Dot, 0), Close(1), Ch("}"),
    Open(2), Greedy(HSpace, 0), Close(2),
    Ch(m), Ch("{"), Open(3), Lazy(Dot, 0), Close(3), Ch("}")>>
AdjacentRepl(m) == <<T(m), T("{"), G(1), G(2), G(3), T("}")>>

RECURSIVE reduce_emph(_)
reduce_emph(string) ==
  IF re_search(AdjacentPat("\\emph"), string)
  THEN reduce_emph(re_sub(AdjacentPat("\\emph"), AdjacentRepl("\\emph"), string))
  ELSE string

RECURSIVE reduce_textbf(_)
reduce_textbf(string) ==
  IF re_search(AdjacentPat("\\textbf"), string)
  THEN reduce_textbf(re_sub(AdjacentPat("\\textbf"), AdjacentRepl("\\textbf"), string))
  ELSE string

\* \\emph\{\\emph\{(.*?)\}(\s*)\}  ->  \\emph{\1\2}
NestedPat(m) ==
  <<Ch(m), Ch("{"), Ch(m), Ch("{"), Open(1), Lazy(Dot, 0), Close(1), Ch("}"),
    Open(2), Greedy(Space, 0), Close(2), Ch("}")>>
NestedRepl(m) == <<T(m), T("{"), G(1), G(2), T("}")>>

\* tidy up empty, nested and subsequent macros.  Group 1 of the patterns
\* with (emph|textbf) holds the control word, backslash included.
tidy_macros(s) ==
  LET s1 == re_sub(NestedPat("\\emph"), NestedRepl("\\emph"), s)
      s2 == re_sub(NestedPat("\\textbf"), NestedRepl("\\textbf"), s1)
      \* \\(emph|textbf)\{\\footnote\{(.*?)\}(\s*)\}  ->  \\footnote{\2}\3
      s3 == re_sub(<<One(Macro), Ch("{"), Ch("\\footnote"), Ch("{"),
                     Open(2), Lazy(Dot, 0), Close(2), Ch("}"),
                     Open(3), Greedy(Space, 0), Close(3), Ch("}")>>,
                   <<T("\\footnote"), T("{"), G(2), T("}"), G(3)>>, s2)
      s4 == reduce_emph(s3)
      s5 == reduce_textbf(s4)
      \* \\(emph|textbf)\{\s*\}  ->  ''
      s6 == re_sub(<<One(Macro), Ch("{"), Greedy(Space, 0), Ch("}")>>, <<>>, s5)
      \* \\(emph|textbf)\{(.*?)\s+\}  ->  \\\1{\2}' '
      s7 == re_sub(<<Open(1), One(Macro), Close(1), Ch("{"),
                     Open(2), Lazy(Dot, 0), Close(2), Greedy(Space, 1), Ch("}")>>,
                   <<G(1), T("{"), G(2), T("}"), T(" ")>>, s6)
      \* \\(emph|textbf)\{\s+(.*?)\}  ->  ' '\\\1{\2}
      s8 == re_sub(<<Open(1), One(Macro), Close(1), Ch("{"),
                     Greedy(Space, 1), Open(2), Lazy(Dot, 0), Close(2), Ch("}")>>,
                   <<T(" "), G(1), T("{"), G(2), T("}")>>, s7)
      \* \\footnote\{(.*?)\s+\}  ->  \\footnote{\1}
      s9 == re_sub(<<Ch("\\footnote"), Ch("{"), Open(1), Lazy(Dot, 0), Close(1),
                     Greedy(Space, 1), Ch("}")>>,
                   <<T("\\footnote"), T("{"), G(1), T("}")>>, s8)
      \* \\footnote\{\s+(.*?)\}  ->  \\footnote{\1}
      s10 == re_sub(<<Ch("\\footnote"), Ch("{"), Greedy(Space, 1),
                      Open(1), Lazy(Dot, 0), Close(1), Ch("}")>>,
                    <<T("\\footnote"), T("{"), G(1), T("}")>>, s9)
  IN  s10

replace_endash(string) ==
  IF CountTok(string, "-") > 1 THEN string
  ELSE re_sub(<<Open(1), One(Digit), Close(1), Ch("-"), Open(2), One(Digit), Close(2)>>,
              <<G(1), T("-"), T("-"), G(2)>>, string)

\* re.sub(r'[\d\-]+', lambda m: replace_endash(m.group()), file_data)
DigitDash == Cls(Digit.set \cup {"-"})
RECURSIVE EndashRunsFrom(_, _)
EndashRunsFrom(s, i) ==
  IF i > Len(s) THEN <<>>
  ELSE LET k == RunLen(s, i, DigitDash)
       IN  IF k > 0
           THEN replace_endash(SubSeq(s, i, i + k - 1)) \o EndashRunsFrom(s, i + k)
           ELSE <<s[i]>> \o EndashRunsFrom(s, i + 1)

\* replace endash
endash(s) ==
  re_sub(<<One(Space), Ch("-"), One(Space)>>, Lits(<<" ", "-", "-", " ">>),
         EndashRunsFrom(s, 1))

\* add thin space to abbreviations, third statement: (\d)%  ->  \1\\,%
thin_space(s) ==
  re_sub(<<Open(1), One(Digit), Close(1), Ch("%")>>, <<G(1), T("\\"), T(","), T("%")>>, s)

\* replace row and cell separators
separators(s) ==
  LET s1 == re_sub(<<Greedy(Space, 1), Ch("<zchinr:cellsep/>")>>,
                   Lits(<<" ", "&", " ", "\n">>), s)
  IN  re_sub(<<Greedy(Space, 1), Ch("<zchinr:rowsep/>")>>,
             Lits(<<" ", "\\", "\\", " ", "\n", "\n">>), s1)

\* replace lists with items
lists(s) ==
  LET \* ((<zchinr:item>.*?<\/zchinr:item>\s*)+)
      s1 == re_sub(<<Open(1),
                     GroupPlus(<<Ch("<zchinr:item>"), Lazy(Dot, 0),
                                 Ch("</zchinr:item>"), Greedy(Space, 0)>>),
                     Close(1)>>,
                   <<T("\\begin{itemize}"), T("\n"), G(1),
                     T("\\end{itemize}"), T("\n"), T("\n")>>, s)
      \* <zchinr:item>(.*?)<\/zchinr:item>\n*
  IN  re_sub(<<Ch("<zchinr:item>"), Open(1), Lazy(Dot, 0), Close(1),
               Ch("</zchinr:item>"), Greedy(Cls({"\n"}), 0)>>,
             <<T("\\item"), T(" "), G(1), T("\n")>>, s1)

\* process typography: the statements in their order.  A character of the
\* text outside ASCII is a token named by its code point, and so is the
\* grave accent, U+0060.
TypographyRules ==
  << <<Chars(<<"U+00A0">>), Lits(<<"~">>)>>,
     <<Chars(<<"U+201C", "U+2018">>), Lits(<<"U+0060", "U+0060", "{", "}", "U+0060">>)>>,
     <<Chars(<<"U+2018", "U+201C">>), Lits(<<"U+0060", "{", "}", "U+0060", "U+0060">>)>>,
     <<Chars(<<"U+201D", "U+2019">>), Lits(<<"'", "'", "{", "}", "'">>)>>,
     <<Chars(<<"U+2019", "U+201D">>), Lits(<<"'", "{", "}", "'", "'">>)>>,
     <<Chars(<<"U+201E", "U+201A">>), Lits(<<",", ",", "{", "}", ",">>)>>,
     <<Chars(<<"U+201A", "U+201E">>), Lits(<<",", "{", "}", ",", ",">>)>>,
     <<Chars(<<"U+201C">>), Lits(<<"U+0060", "U+0060">>)>>,
     <<Chars(<<"U+201D">>), Lits(<<"'", "'">>)>>,
     <<Chars(<<"U+201E">>), Lits(<<",", ",">>)>>,
     <<Chars(<<"U+2018">>), Lits(<<"U+0060">>)>>,
     <<Chars(<<"U+2019">>), Lits(<<"'">>)>>,
     <<Chars(<<"U+201A">>), Lits(<<",">>)>>,
     <<Chars(<<"U+2026">>), Lits(<<"\\ldots", "{", "}">>)>>,
     <<Chars(<<".", ".", ".">>), Lits(<<"\\ldots", "{", "}">>)>>,
     <<Chars(<<"U+2013">>), Lits(<<"-", "-">>)>>,
     <<Chars(<<"U+2014">>), Lits(<<"-", "-", "-">>)>>,
     <<Chars(<<"!", "U+0060">>), Lits(<<"!", "{", "}", "U+0060">>)>>,
     <<Chars(<<"?", "U+0060">>), Lits(<<"?", "{", "}", "U+0060">>)>> >>

\* A sequence of re.sub statements <<pattern, replacement>>, run in order.
RECURSIVE ApplyRules(_, _)
ApplyRules(rules, s) ==
  IF Len(rules) = 0 THEN s
  ELSE ApplyRules(Tail(rules), re_sub(Head(rules)[1], Head(rules)[2], s))

typography(s) == ApplyRules(TypographyRules, s)

\* process spaces
spaces(s) ==
  ApplyRules(<< <<Chars(<<"~", "\n">>), Lits(<<"\n">>)>>,
                <<<<Greedy(Cls({"\n"}), 3)>>, Lits(<<"\n", "\n">>)>>,
                <<<<Ch("~"), One(HSpace)>>, Lits(<<"~">>)>>,
                <<<<One(HSpace), Ch("~")>>, Lits(<<"~">>)>> >>, s)

\* process chinese characters: a character of the ranges U+3000-U+303F,
\* U+4E00-U+9FFF and U+FF00-U+FFEF is the token "CJK".
chinese(s) ==
  re_sub(<<Open(1), Greedy(Cls({"CJK"}), 1), Close(1)>>,
         <<T("\\zhs"), T("{"), G(1), T("}")>>, s)

\* ----------------------------------------------------------- fn2txt.py
\* (\\,|~) is run as its two alternatives in turn: neither replacement
\* makes or breaks a match of the other.
FnRules ==
  << <<<<One(Cls({"\\zhs", "\\emph", "\\textbf"})), Ch("{"),
         Open(2), Lazy(Dot, 0), Close(2), Ch("}")>>, <<G(2)>>>>,
     <<<<Ch("\\url"), Ch("{"), Open(1), Lazy(Dot, 0), Close(1), Ch("}")>>,
       <<T("<"), G(1), T(">")>>>>,
     <<Chars(<<"\\", ",">>), Lits(<<" ">>)>>,
     <<Chars(<<"~">>), Lits(<<" ">>)>>,
     <<Chars(<<"-", "-", "-">>), Lits(<<"U+2014">>)>>,
     <<Chars(<<"-", "-">>), Lits(<<"U+2013">>)>>,
     <<Chars(<<"'", "'">>), Lits(<<"U+201D">>)>>,
     <<Chars(<<"'">>), Lits(<<"U+2019">>)>>,
     <<Chars(<<"U+0060", "U+0060">>), Lits(<<"U+201C">>)>>,
     <<Chars(<<"U+0060">>), Lits(<<"U+2018">>)>>,
     <<Chars(<<",", ",">>), Lits(<<"U+201E">>)>> >>

\* list_fns = re.findall(r'\\footnote\{([^\}]+?)\}', file_data)
list_fns(file) ==
  re_findall(<<Ch("\\footnote"), Ch("{"), Open(1), Lazy(NotCls({"}"}), 1), Close(1),
               Ch("}")>>, ApplyRules(FnRules, file))

fn2txt(file) ==
  Flatten([j \in 1..Len(list_fns(file)) |-> list_fns(file)[j] \o <<"\n", "\n">>])

\* ---------------------------------------------------------- documents
PlainRun(text) == Run({}, <<Txt(text)>>)
PlainPara(text) == Para({}, <<PlainRun(text)>>)

\* A body of one paragraph of plain text.
TextAlphabet == {"a", "1", "%", "-", " ", "CJK"}
TextDocs ==
  {Docx(NoPart, NoPart, <<PlainPara(t)>>) : t \in SeqsUpTo(TextAlphabet, MaxTextLen)}

\* One paragraph with a reference to footnote 1, whose text is t.
TypoAlphabet ==
  {"a", "U+201C", "U+201D", "U+201E", "U+2018", "U+2019", "U+201A",
   "U+2026", "U+2013", "U+2014"}
FnDoc(t) ==
  Docx(NoPart, Part(<<Footnote("1", <<PlainPara(t)>>)>>),
       <<Para({}, <<Run({}, <<Txt(<<"a">>), Ref("1")>>)>>)>>)
FnDocs == {FnDoc(t) : t \in SeqsUpTo(TypoAlphabet, MaxFnLen)}

\* References to footnotes 1 and 2 against every footnotes part over them.
RefDocs ==
  {Docx(NoPart, fns, <<Para({}, <<Run({}, c)>>)>>) :
     fns \in {NoPart, Part(<<>>),
              Part(<<Footnote("1", <<PlainPara(<<"a">>)>>)>>),
              Part(<<Footnote("2", <<PlainPara(<<"a">>)>>)>>),
              Part(<<Footnote("1", <<PlainPara(<<"a">>)>>),
                     Footnote("2", <<PlainPara(<<"a">>)>>)>>)},
     c \in {<<Txt(<<"a">>), Ref("1")>>, <<Txt(<<"a">>), Ref("2")>>,
            <<Ref("1"), Txt(<<"a">>), Ref("2")>>}}

\* One table: each cell holds a paragraph of text or a <w:p/>.
TblCells == {<<PlainPara(<<"a">>)>>, <<EmptyPara>>}
TblRows == SeqsUpTo(TblCells, MaxCells)
TblDocs ==
  {Docx(NoPart, NoPart, <<Tbl(rows)>>) : rows \in SeqsUpTo(TblRows, MaxRows)}

\* One or two paragraphs, each a list item by style L, by a direct list
\* level, by both or by neither.
ListParas ==
  {Para(pPr, <<PlainRun(<<"a">>)>>) :
     pPr \in SUBSET {Elem("w:pStyle", "L"), Elem("w:ilvl", "0")}}
ListDocs ==
  {Docx(Part(<<Style("L", {Elem("w:ilvl", "0")})>>), NoPart, body) :
     body \in SeqsUpTo(ListParas, 2)}

\* One paragraph of one run.  The styles part declares style S with any
\* of the toggles <w:b/>, <w:i/>, <w:1/> and an outline level; the paragraph
\* names S and has any of the direct properties; the run names S by
\* <w:rStyle> or by <w:r_style>, or names no style, and has any of the
\* direct toggles.
ParaDocs ==
  {Docx(Part(<<Style("S", sp)>>), NoPart,
        <<Para({Elem("w:pStyle", "S")} \cup pp, <<Run(rs \cup rp, <<Txt(<<"a">>)>>)>>)>>) :
     sp \in SUBSET {Elem("w:b", ""), Elem("w:i", ""), Elem("w:1", ""),
                    Elem("w:outlineLvl", "1")},
     pp \in SUBSET {Elem("w:b", ""), Elem("w:i", ""), Elem("w:outlineLvl", "2")},
     rs \in {{}, {Elem("w:rStyle", "S")}, {Elem("w:r_style", "S")}},
     rp \in SUBSET {Elem("w:b", ""), Elem("w:i", "")}}

\* One heading of every outline level, by style and by direct property.
Levels == {ToString(n) : n \in 0..MaxLevel}
HeadingDocs ==
  {Docx(Part(<<Style("H", {Elem("w:outlineLvl", v)})>>), NoPart,
        <<Para({Elem("w:pStyle", "H")}, <<PlainRun(<<"a">>)>>)>>) : v \in Levels}
  \cup
  {Docx(NoPart, NoPart,
        <<Para({Elem("w:outlineLvl", v)}, <<PlainRun(<<"a">>)>>)>>) : v \in Levels}

Docs ==
  TextDocs \cup FnDocs \cup RefDocs \cup TblDocs \cup ListDocs \cup ParaDocs
    \cup HeadingDocs

\* Documents for repeated invocations: with and without a styles part.
ReuseDocs ==
  {Docx(st, NoPart, <<Para(pp, <<PlainRun(<<"a">>)>>)>>) :
     st \in {NoPart,
             Part(<<Style("S", {Elem("w:b", "")})>>),
             Part(<<Style("S", {Elem("w:outlineLvl", "0")})>>),
             Part(<<Style("S", {Elem("w:ilvl", "0")})>>),
             Part(<<Style("S", {Elem("w:1", "")})>>)},
     pp \in {{}, {Elem("w:pStyle", "S")}}}

\* ------------------------------------------------------ the state machine
VARIABLES
  bold_styles, italic_styles, section_styles, list_styles, \* the module's tables
  file_in,        \* the package being converted
  footnote_nodes, \* process_structure: the footnote index
  rendered,       \* process_structure: result of process_nodes, before the
                  \* footnotes are put in
  p_locals,       \* process_p_nodes: the final locals of each body paragraph
  file_data,      \* __main__ of docx2tex.py
  output_tex,     \* the file docx2tex.py writes and fn2txt.py reads
  out_txt,        \* the file fn2txt.py writes
  pc,             \* the next statement block of __main__
  invocations     \* the calls of process_structure in this process

vars ==
  <<bold_styles, italic_styles, section_styles, list_styles, file_in,
    footnote_nodes, rendered, p_locals, file_data, output_tex, out_txt, pc,
    invocations>>

TheGlobals == Globals(bold_styles, italic_styles, section_styles, list_styles)

InitWith(D) ==
  /\ bold_styles = <<>>
  /\ italic_styles = <<>>
  /\ section_styles = {}
  /\ list_styles = {}
  /\ file_in \in D
  /\ footnote_nodes = {}
  /\ rendered = <<>>
  /\ p_locals = <<>>
  /\ file_data = <<>>
  /\ output_tex = <<>>
  /\ out_txt = <<>>
  /\ pc = "process_structure"
  /\ invocations = 0

Init == InitWith(Docs)

\* file_data = process_structure(file_in)
Returned(r) ==
  /\ bold_styles' = r.globals.bold_styles
  /\ italic_styles' = r.globals.italic_styles
  /\ section_styles' = r.globals.section_styles
  /\ list_styles' = r.globals.list_styles
  /\ footnote_nodes' = r.footnote_nodes
  /\ rendered' = r.rendered
  /\ p_locals' = r.p_locals
  /\ file_data' = r.result

ProcessStructure ==
  /\ pc = "process_structure"
  /\ Returned(process_structure(file_in, TheGlobals))
  /\ invocations' = invocations + 1
  /\ pc' = "escape"
  /\ UNCHANGED <<file_in, output_tex, out_txt>>

Unchanged == 
  UNCHANGED <<bold_styles, italic_styles, section_styles, list_styles, file_in,
              footnote_nodes, rendered, p_locals, output_tex, out_txt, invocations>>

Escape ==
  /\ pc = "escape"
  /\ file_data' = escape(file_data)
  /\ pc' = "tidy_macros"
  /\ Unchanged

TidyMacros ==
  /\ pc = "tidy_macros"
  /\ file_data' = tidy_macros(file_data)
  /\ pc' = "endash"
  /\ Unchanged

Endash ==
  /\ pc = "endash"
  /\ file_data' = endash(file_data)
  /\ pc' = "thin_space"
  /\ Unchanged

ThinSpace ==
  /\ pc = "thin_space"
  /\ file_data' = thin_space(file_data)
  /\ pc' = "separators"
  /\ Unchanged

Separators ==
  /\ pc = "separators"
  /\ file_data' = separators(file_data)
  /\ pc' = "lists"
  /\ Unchanged

Lists ==
  /\ pc = "lists"
  /\ file_data' = lists(file_data)
  /\ pc' = "typography"
  /\ Unchanged

Typography ==
  /\ pc = "typography"
  /\ file_data' = typography(file_data)
  /\ pc' = "spaces"
  /\ Unchanged

Spaces ==
  /\ pc = "spaces"
  /\ file_data' = spaces(file_data)
  /\ pc' = "chinese"
  /\ Unchanged

Chinese ==
  /\ pc = "chinese"
  /\ file_data' = chinese(file_data)
  /\ pc' = "write"
  /\ Unchanged

\* "write file": output.tex now holds file_data.
WriteFile ==
  /\ pc = "write"
  /\ output_tex' = file_data
  /\ pc' = "written"
  /\ UNCHANGED <<bold_styles, italic_styles, section_styles, list_styles, file_in,
                 footnote_nodes, rendered, p_locals, file_data, out_txt, invocations>>

\* fn2txt.py run on the file docx2tex.py wrote.
Fn2txt ==
  /\ pc = "written"
  /\ out_txt' = fn2txt(output_tex)
  /\ pc' = "extracted"
  /\ UNCHANGED <<bold_styles, italic_styles, section_styles, list_styles, file_in,
                 footnote_nodes, rendered, p_locals, file_data, output_tex, invocations>>

Next ==
  \/ ProcessStructure
  \/ Escape
  \/ TidyMacros
  \/ Endash
  \/ ThinSpace
  \/ Separators
  \/ Lists
  \/ Typography
  \/ Spaces
  \/ Chinese
  \/ WriteFile
  \/ Fn2txt

Spec == Init /\ [][Next]_vars

\* process_structure called again by a program that imports docx2tex: the
\* module's tables are what the earlier calls left.
Reinvoke ==
  /\ pc = "escape"
  /\ invocations < MaxRuns
  /\ file_in' \in ReuseDocs
  /\ pc' = "process_structure"
  /\ UNCHANGED <<bold_styles, italic_styles, section_styles, list_styles,
                 footnote_nodes, rendered, p_locals, file_data, output_tex, out_txt,
                 invocations>>

InitReuse == InitWith(ReuseDocs)
NextReuse == ProcessStructure \/ Reinvoke
SpecReuse == InitReuse /\ [][NextReuse]_vars

\* -------------------------------------------------------------- claims
\* process_structure has returned for file_in.
Processed == pc # "process_structure"
CellSep == "<zchinr:cellsep/>"
RowSep == "<zchinr:rowsep/>"

\* The body is one table / one paragraph.
SoleTable == Len(file_in.body) = 1 /\ file_in.body[1].kind = "w:tbl"
SoleParagraph == Len(file_in.body) = 1 /\ file_in.body[1].kind = "w:p"
TheRows == file_in.body[1].rows
ThePara == file_in.body[1]

\* The cell separators of row k of a rendered table: those with k - 1 row
\* separators before them.
CellSepsInRow(s, k) ==
  Cardinality({i \in 1..Len(s) :
                 /\ s[i] = CellSep
                 /\ Cardinality({h \in 1..(i - 1) : s[h] = RowSep}) = k - 1})
CellSepsRight ==
  \A k \in 1..Len(TheRows) : CellSepsInRow(rendered, k) = Len(TheRows[k]) - 1

\* C1 as stated: a rendered table of R rows holds C - 1 cell separators in
\* each row of C cells and R - 1 row separators, none after the last row.
C1_Original ==
  (Processed /\ SoleTable) =>
    /\ CellSepsRight
    /\ CountTok(rendered, RowSep) = Len(TheRows) - 1

\* C1, amended: a rendered table of R rows holds C - 1 cell separators in
\* each row of C cells and R row separators, one closing every row, the
\* last row included: the last row separator stands right before the end
\* of the documentation block.
C1_RowSepAfterEveryRow ==
  (Processed /\ SoleTable) =>
    /\ CellSepsRight
    /\ CountTok(rendered, RowSep) = Len(TheRows)
    /\ \A i \in 2..Len(rendered) :
         rendered[i] = "\\end{documentation}" => rendered[i - 1] = RowSep

\* A 2x2 table has been rendered, with its two row separators.
C1_Witness ==
  /\ Processed /\ SoleTable
  /\ Len(TheRows) = 2 /\ Len(TheRows[1]) = 2 /\ Len(TheRows[2]) = 2
  /\ CountTok(rendered, RowSep) = 2
  /\ CountTok(rendered, CellSep) = 2

\* C2 as stated: the footnote substitution replaces the reference markers
\* whose identifier the index holds by the index's entry and leaves every
\* other token, the markers with an identifier the index lacks among
\* them, as it was.
C2_UnresolvedMarkerKept ==
  pc = "escape" =>
    file_data =
      Flatten([j \in 1..Len(rendered) |->
                 IF /\ IsFootnoteReference(rendered[j])
                    /\ DictHas(footnote_nodes, RefId(rendered[j]))
                 THEN DictGet(footnote_nodes, RefId(rendered[j]))
                 ELSE <<rendered[j]>>])

\* C3 as stated: a paragraph whose style the catalog holds as italic, or
\* whose direct properties have the italic toggle, has the italic wrapper
\* in its prefix, whatever its section status.
C3_ItalicNeverSuppressed ==
  Processed =>
    \A j \in 1..Len(p_locals) :
      LET p == TopParagraphs(file_in.body)[j]
      IN  (StyleIs(p, italic_styles) \/ HasTag(p.pPr, "w:i")) =>
            "\\emph" \in Range(p_locals[j].append_before_p)

\* The declared styles of file_in.
Declared == IF file_in.styles.present THEN Range(file_in.styles.nodes) ELSE {}

\* C4 as stated: the catalog holds a declared style as bold iff its
\* property block has <w:b/>, as italic iff it has <w:i/>, with section
\* level v iff it has <w:outlineLvl w:val=v>, with list level v iff it has
\* <w:ilvl w:val=v>; and a run that names, by <w:rStyle>, a style the
\* catalog holds as italic (as bold, outside a section) is wrapped so.
C4_Catalog ==
  Processed =>
    /\ \A st \in Declared :
         /\ ListHas(bold_styles, st.styleId) <=> HasTag(st.props, "w:b")
         /\ ListHas(italic_styles, st.styleId) <=> HasTag(st.props, "w:i")
         /\ \A v \in Levels :
              /\ <<st.styleId, v>> \in section_styles
                   <=> Elem("w:outlineLvl", v) \in st.props
              /\ <<st.styleId, v>> \in list_styles
                   <=> Elem("w:ilvl", v) \in st.props
    /\ SoleParagraph =>
         \A j \in 1..Len(ThePara.runs) :
           LET rPr == ThePara.runs[j].rPr
           IN  HasTag(rPr, "w:rStyle") =>
                 /\ ListHas(italic_styles, ValOf(rPr, "w:rStyle"))
                      => "\\emph" \in Range(rendered)
                 /\ (ListHas(bold_styles, ValOf(rPr, "w:rStyle"))
                      /\ ~p_locals[1].is_section)
                      => "\\textbf" \in Range(rendered)

\* C5 as stated: the tables and the output of any invocation of
\* process_structure are those of converting its document in a fresh
\* process.
C5_NoStateAcrossRuns ==
  pc = "escape" =>
    /\ TheGlobals = process_structure(file_in, FreshGlobals).globals
    /\ file_data = process_structure(file_in, FreshGlobals).result

\* The text of the body's one plain paragraph.
BodyText == Flatten([j \in 1..Len(ThePara.runs) |-> run_text(ThePara.runs[j], TRUE)])
DigitPercents(t) ==
  Cardinality({i \in 1..(Len(t) - 1) : t[i] \in Digit.set /\ t[i + 1] = "%"})
\* The thin spaces that follow a digit.
ThinSpacesAfterDigit(t) ==
  Cardinality({i \in 1..(Len(t) - 2) :
                 t[i] \in Digit.set /\ t[i + 1] = "\\" /\ t[i + 2] = ","})

\* C6 as stated: every digit of the text that a percent sign follows has
\* a thin space after it in the written output.
C6_ThinSpaceBeforePercent ==
  (pc = "written" /\ SoleParagraph /\ ~file_in.styles.present) =>
    ThinSpacesAfterDigit(output_tex) >= DigitPercents(BodyText)

\* One paragraph with one reference, to the one footnote of the footnotes
\* part.
OneFootnote ==
  /\ SoleParagraph
  /\ file_in.footnotes.present /\ Len(file_in.footnotes.nodes) = 1
  /\ Len(ThePara.runs) = 1
  /\ Cardinality({j \in 1..Len(ThePara.runs[1].content) :
                    ThePara.runs[1].content[j].k = "w:footnoteReference"}) = 1
  /\ \A j \in 1..Len(ThePara.runs[1].content) :
       ThePara.runs[1].content[j].k = "w:footnoteReference"
         => ThePara.runs[1].content[j].id = file_in.footnotes.nodes[1].id
FootnoteText ==
  LET body == file_in.footnotes.nodes[1].body
  IN  Flatten([j \in 1..Len(body) |->
                 Flatten([h \in 1..Len(body[j].runs) |->
                            run_text(body[j].runs[h], TRUE)])])

\* C7 as stated: the extractor, run on the converter's output, gives back
\* the footnote's text, character for character.
C7_RoundTrip ==
  (pc = "extracted" /\ OneFootnote) =>
    out_txt = FootnoteText \o <<"\n", "\n">>

\* The style the paragraph names is declared with an outline level, or the
\* paragraph's direct properties have one.
EffectiveSection(p) ==
  \/ HasTag(p.pPr, "w:outlineLvl")
  \/ /\ HasTag(p.pPr, "w:pStyle")
     /\ \E st \in Declared :
          st.styleId = ValOf(p.pPr, "w:pStyle") /\ HasTag(st.props, "w:outlineLvl")

\* C8: the text rendered for a paragraph whose effective section status
\* is true holds no bold wrapper, whichever of the paragraph's style, its
\* direct properties, a run's style and a run's direct properties ask for
\* bold.
C8_NoBoldInSection ==
  (Processed /\ SoleParagraph /\ EffectiveSection(ThePara)) =>
    "\\textbf" \notin Range(rendered)

\* A section by direct outline level has been rendered whose style, direct
\* properties, run style and run properties all ask for bold.
C8_Witness ==
  /\ Processed /\ SoleParagraph
  /\ HasTag(ThePara.pPr, "w:outlineLvl")
  /\ HasTag(ThePara.pPr, "w:b")
  /\ StyleIs(ThePara, bold_styles)
  /\ ~StyleIn(ThePara, section_styles)
  /\ Len(ThePara.runs) = 1
  /\ HasTag(ThePara.runs[1].rPr, "w:b")
  /\ HasTag(ThePara.runs[1].rPr, "w:r_style")
  /\ ListHas(bold_styles, ValOf(ThePara.runs[1].rPr, "w:r_style"))
  /\ p_locals[1].is_section
  /\ "a" \in Range(rendered)

\* The heading macro of outline level v.
HeadingMacro(v) ==
  CASE v = "0" -> "\\section"
    [] v = "1" -> "\\subsection"
    [] v = "2" -> "\\subsubsection"
    [] v = "3" -> "\\paragraph"
    [] OTHER -> "\\subparagraph"

\* C9 as stated: the prefix of a paragraph with direct outline level v
\* opens with the heading macro of v, the one a style of section level v
\* gives a paragraph without a direct level.
C9_DirectLevelSelectsMacro ==
  Processed =>
    \A j \in 1..Len(p_locals) :
      LET p == TopParagraphs(file_in.body)[j]
          opening == SubSeq(p_locals[j].append_before_p, 1, 2)
      IN  IF HasTag(p.pPr, "w:outlineLvl")
          THEN opening = <<HeadingMacro(ValOf(p.pPr, "w:outlineLvl")), "{">>
          ELSE StyleIn(p, section_styles) =>
                 opening = <<HeadingMacro(DictGet(section_styles,
                                                  ValOf(p.pPr, "w:pStyle"))), "{">>

\* The placeholder tokens of the tree rendering.
Placeholders == {"<zchinr:item>", "</zchinr:item>", CellSep, RowSep}

\* C10 as stated: the written output holds no placeholder token, neither
\* a list-item, nor a cell-separator, nor a row-separator one.
C10_NoPlaceholderLeft ==
  pc = "written" => Range(output_tex) \cap Placeholders = {}

====
